---- MODULE Spec2Model ----
(***************************************************************************)
(* Geospatial core of nh-cpr-challenge.                                    *)
(*                                                                         *)
(*   src/app.py              api_detect_district, _point_in_geometry,      *)
(*                           _point_in_polygon   (point-in-district)       *)
(*   src/simplify_geojson.py point_line_distance, douglas_peucker,         *)
(*                           round_coords, simplify_ring                   *)
(*                                                                         *)
(* Coordinates are integers on a grid and all arithmetic is exact: a       *)
(* quotient a < n/d is decided by cross-multiplication, a distance by its  *)
(* square.  Python values that may be None or an exception are records or  *)
(* sequences (<<>> is None, <<v>> is v), never a mix of types.             *)
(***************************************************************************)
EXTENDS Integers, Sequences, FiniteSets, TLC

VARIABLES
    args,       \* request.args of /api/detect-district: a function on a subset of {"lat","lng"}
    geojson,    \* the parsed static/data/ec-districts.geojson
    response,   \* what api_detect_district answered
    x, y,       \* the point handed to _point_in_geometry
    geometry,   \* the geometry handed to _point_in_geometry or simplify_geometry
    geometry0,  \* that geometry as it was when simplify_geometry was called
    contained,  \* what _point_in_geometry returned or raised
    ring,       \* the caller's list handed to simplify_ring (Python lists are shared)
    ring0,      \* the points that list held when simplify_ring was called
    epsilon,    \* the tolerance handed to simplify_ring
    result      \* what simplify_ring or simplify_geometry returned or raised

vars == <<args, geojson, response, x, y, geometry, geometry0, contained, ring, ring0,
          epsilon, result>>

(*************************** bounds of the model ***************************)
MaxFeatures == 3    \* features in the district file
MaxRing == 4        \* points of a freely drawn exterior ring
MaxPolys == 2       \* polygons of a MultiPolygon
MaxLen == 5
MaxHoles == 1       \* interior rings of a polygon handed to simplify_geometry

(***************************** Python values *******************************)
\* A call's outcome: exc = "" and the returned value, or the exception raised.
Return(v) == [exc |-> "", val |-> v]
Raise(e) == [exc |-> e, val |-> FALSE]
Pending == [exc |-> "pending", val |-> FALSE]

\* All sequences over S with lo..hi elements.
SeqsOf(S, lo, hi) == UNION {[1..n -> S] : n \in lo..hi}

(****************************** src/models.py ******************************)
COUNCILORS ==
    [d \in 1..5 |-> [name |-> CASE d = 1 -> "Joseph Kenney"
                               [] d = 2 -> "Karen Liot Hill"
                               [] d = 3 -> "Janet Stevens"
                               [] d = 4 -> "John Stephen"
                               [] OTHER -> "Dave Wheeler"]]

(******************************* src/app.py ********************************)
\* Faulty variant: x <= the intersection.
XLeftOfIntersectionLeq(px, py, xi, yi, xj, yj) ==
    LET num == (xj - xi) * (py - yi)
        den == yj - yi
    IN  IF den > 0 THEN (px - xi) * den <= num ELSE (px - xi) * den >= num

\* Faulty variant: the `+ xi` is lost.
XLeftOfIntersectionNoOffset(px, py, xi, yi, xj, yj) ==
    LET num == (xj - xi) * (py - yi)
        den == yj - yi
    IN  IF den > 0 THEN px * den < num ELSE px * den > num

\* x < (xj - xi) * (y - yi) / (yj - yi) + xi, in exact arithmetic (yj # yi).
XLeftOfIntersection(px, py, xi, yi, xj, yj) ==
    LET num == (xj - xi) * (py - yi)
        den == yj - yi
    IN  IF den > 0 THEN (px - xi) * den < num ELSE (px - xi) * den > num

\* Faulty variant: the second comparison of the straddle test is `yj >= y`.
RECURSIVE RayLoopMixed(_, _, _, _, _, _)
RayLoopMixed(px, py, r, i, j, inside) ==
    IF i > Len(r) THEN Return(inside)
    ELSE LET xi == r[i][1]
             yi == r[i][2]
             xj == r[j][1]
             yj == r[j][2]
         IN  IF (yi > py) # (yj >= py)
             THEN IF yj - yi = 0 THEN Raise("ZeroDivisionError")
                  ELSE RayLoopMixed(px, py, r, i + 1, i,
                                    IF XLeftOfIntersection(px, py, xi, yi, xj, yj)
                                    THEN ~inside ELSE inside)
             ELSE RayLoopMixed(px, py, r, i + 1, i, inside)

\* The loop of _point_in_polygon from index i on (1-based), j the previous index.
\* Python's `and` evaluates the quotient only when the first conjunct holds.
RECURSIVE RayLoop(_, _, _, _, _, _)
RayLoop(px, py, r, i, j, inside) ==
    IF i > Len(r) THEN Return(inside)
    ELSE LET xi == r[i][1]
             yi == r[i][2]
             xj == r[j][1]
             yj == r[j][2]
         IN  IF (yi > py) # (yj > py)
             THEN IF yj - yi = 0 THEN Raise("ZeroDivisionError")
                  ELSE RayLoop(px, py, r, i + 1, i,
                               IF XLeftOfIntersection(px, py, xi, yi, xj, yj)
                               THEN ~inside ELSE inside)
             ELSE RayLoop(px, py, r, i + 1, i, inside)

\* Faulty variant: every further ring is a hole and flips the answer.
RECURSIVE HoleAwareParity(_, _, _, _)
HoleAwareParity(px, py, coordinates, k) ==
    IF k > Len(coordinates) THEN FALSE
    ELSE RayLoop(px, py, coordinates[k], 1, Len(coordinates[k]), FALSE).val
         # HoleAwareParity(px, py, coordinates, k + 1)

_point_in_polygon_holes(px, py, coordinates) ==
    IF Len(coordinates) = 0 THEN Raise("IndexError")
    ELSE Return(HoleAwareParity(px, py, coordinates, 1))

_point_in_polygon(px, py, coordinates) ==
    IF Len(coordinates) = 0 THEN Raise("IndexError")    \* coordinates[0]
    ELSE LET r == coordinates[1]
         IN  RayLoop(px, py, r, 1, Len(r), FALSE)

\* any(_point_in_polygon(x, y, poly) for poly in ...): in order, stopping at the
\* first True; an exception of an earlier polygon ends the scan.
RECURSIVE AnyPolygon(_, _, _, _)
AnyPolygon(px, py, polys, k) ==
    IF k > Len(polys) THEN Return(FALSE)
    ELSE LET r == _point_in_polygon(px, py, polys[k])
         IN  IF r.exc # "" THEN r
             ELSE IF r.val THEN Return(TRUE)
             ELSE AnyPolygon(px, py, polys, k + 1)

\* Faulty variants: all() in place of any(); and one where another type raises.
RECURSIVE AllPolygons(_, _, _, _)
AllPolygons(px, py, polys, k) ==
    IF k > Len(polys) THEN Return(TRUE)
    ELSE LET r == _point_in_polygon(px, py, polys[k])
         IN  IF r.exc # "" THEN r
             ELSE IF ~r.val THEN Return(FALSE)
             ELSE AllPolygons(px, py, polys, k + 1)

_point_in_geometry_all(px, py, g) ==
    IF g.type = "Polygon" THEN _point_in_polygon(px, py, g.coordinates)
    ELSE IF g.type = "MultiPolygon" THEN AllPolygons(px, py, g.coordinates, 1)
    ELSE Return(FALSE)

_point_in_geometry_strict(px, py, g) ==
    IF g.type = "Polygon" THEN _point_in_polygon(px, py, g.coordinates)
    ELSE IF g.type = "MultiPolygon" THEN AnyPolygon(px, py, g.coordinates, 1)
    ELSE Raise("ValueError")

_point_in_geometry(px, py, g) ==
    IF g.type = "Polygon" THEN _point_in_polygon(px, py, g.coordinates)
    ELSE IF g.type = "MultiPolygon" THEN AnyPolygon(px, py, g.coordinates, 1)
    ELSE Return(FALSE)

\* A response of the handler: the HTTP status, the JSON body's district (<<>> is
\* None, also when the body has no district), councilor and error.
Json(status, district, councilor, error) ==
    [status |-> status, district |-> district, councilor |-> councilor, error |-> error]
NoResponse == Json(0, <<>>, "", "")

\* The scan `for feature in geojson['features']` from feature i on.
\* Faulty variant: a later feature that contains the point overrides an earlier one.
RECURSIVE ScanFeaturesLast(_, _, _, _)
ScanFeaturesLast(lng_, lat_, features, i) ==
    IF i > Len(features) THEN Json(200, <<>>, "", "")
    ELSE LET district == features[i].properties.district
             hit == _point_in_geometry(lng_, lat_, features[i].geometry)
             later == ScanFeaturesLast(lng_, lat_, features, i + 1)
         IN  IF hit.exc # "" THEN Json(500, <<>>, "", hit.exc)
             ELSE IF hit.val /\ later.district = <<>>
                  THEN IF district \in DOMAIN COUNCILORS
                       THEN Json(200, <<district>>, COUNCILORS[district].name, "")
                       ELSE Json(500, <<>>, "", "KeyError")
                  ELSE later

\* Faulty variant: no match is answered as an error instead of {'district': None}.
RECURSIVE ScanFeaturesNotFound(_, _, _, _)
ScanFeaturesNotFound(lng_, lat_, features, i) ==
    IF i > Len(features) THEN Json(404, <<>>, "", "no district found")
    ELSE LET district == features[i].properties.district
             hit == _point_in_geometry(lng_, lat_, features[i].geometry)
         IN  IF hit.exc # "" THEN Json(500, <<>>, "", hit.exc)
             ELSE IF hit.val
                  THEN IF district \in DOMAIN COUNCILORS
                       THEN Json(200, <<district>>, COUNCILORS[district].name, "")
                       ELSE Json(500, <<>>, "", "KeyError")
                  ELSE ScanFeaturesNotFound(lng_, lat_, features, i + 1)

RECURSIVE ScanFeatures(_, _, _, _)
ScanFeatures(lng_, lat_, features, i) ==
    IF i > Len(features) THEN Json(200, <<>>, "", "")       \* {'district': None}
    ELSE LET district == features[i].properties.district
             hit == _point_in_geometry(lng_, lat_, features[i].geometry)
         IN  IF hit.exc # "" THEN Json(500, <<>>, "", hit.exc)
             ELSE IF hit.val
                  THEN IF district \in DOMAIN COUNCILORS
                       THEN Json(200, <<district>>, COUNCILORS[district].name, "")
                       ELSE Json(500, <<>>, "", "KeyError")
                  ELSE ScanFeatures(lng_, lat_, features, i + 1)

\* The handler: request.args.get(..) is None for a missing argument.
api_detect_district(a, file) ==
    IF "lat" \notin DOMAIN a \/ "lng" \notin DOMAIN a
    THEN Json(400, <<>>, "", "lat and lng required")
    ELSE ScanFeatures(a.lng, a.lat, file.features, 1)

(************************* src/simplify_geojson.py *************************)
\* A distance is kept as its square, an exact fraction num/den (den > 0).
Dist(num, den) == [num |-> num, den |-> den]
\* Faulty variant: a >= b.
DistGreaterOrEqual(a, b) == a.num * b.den >= b.num * a.den
\* a > b for two distances.
DistGreater(a, b) == a.num * b.den > b.num * a.den
\* Faulty variant: the comparison inverted, dist < epsilon.
ExceedsInverted(dist, eps) == IF eps < 0 THEN FALSE ELSE dist.num < eps * eps * dist.den
\* Faulty variant: dist >= epsilon.
ExceedsOrEqual(dist, eps) == IF eps < 0 THEN TRUE ELSE dist.num >= eps * eps * dist.den
\* dist > epsilon, epsilon a number of grid steps (a distance is never negative).
Exceeds(dist, eps) == IF eps < 0 THEN TRUE ELSE dist.num > eps * eps * dist.den

Max2(a, b) == IF a >= b THEN a ELSE b
Min2(a, b) == IF a <= b THEN a ELSE b

\* Faulty variant: the distance to the infinite line, t not clamped to [0, 1].
point_line_distance_unclamped(point, start, end) ==
    IF start = end
    THEN Dist((point[1] - start[1]) * (point[1] - start[1])
              + (point[2] - start[2]) * (point[2] - start[2]), 1)
    ELSE LET dx == end[1] - start[1]
             dy == end[2] - start[2]
             len2 == dx * dx + dy * dy
             tn == (point[1] - start[1]) * dx + (point[2] - start[2]) * dy
             ex == (point[1] - start[1]) * len2 - tn * dx
             ey == (point[2] - start[2]) * len2 - tn * dy
         IN  Dist(ex * ex + ey * ey, len2 * len2)

\* t = tn/len2 after the clamp; the projection is start + t * (dx, dy).
point_line_distance(point, start, end) ==
    IF start = end
    THEN Dist((point[1] - start[1]) * (point[1] - start[1])
              + (point[2] - start[2]) * (point[2] - start[2]), 1)
    ELSE LET dx == end[1] - start[1]
             dy == end[2] - start[2]
             len2 == dx * dx + dy * dy
             tn == Max2(0, Min2(len2,
                       (point[1] - start[1]) * dx + (point[2] - start[2]) * dy))
             ex == (point[1] - start[1]) * len2 - tn * dx
             ey == (point[2] - start[2]) * len2 - tn * dy
         IN  Dist(ex * ex + ey * ey, len2 * len2)

\* a * b in double arithmetic for a and b small whole multiples of 2^-540: the
\* exact product, a multiple of 2^-1080, is far below the normal range and is
\* rounded (ties to even) to a multiple of 2^-1074, the smallest positive
\* double, which is 64 * 2^-1080.  The value is in units of 2^-1074.
FloatProduct(a, b) ==
    LET q == (a * b) \div 64
        r == (a * b) % 64
    IN  IF 2 * r > 64 \/ (2 * r = 64 /\ q % 2 = 1) THEN q + 1 ELSE q

\* dx * dx + dy * dy of line 20 as the doubles give it, for such coordinates
\* (their differences and the sum of the two products are exact).
Divisor(start, end) ==
    FloatProduct(end[1] - start[1], end[1] - start[1])
        + FloatProduct(end[2] - start[2], end[2] - start[2])

\* point_line_distance on such coordinates: whether it returns a double (the
\* value is not modelled) or the division of line 20 raises.
point_line_distance_tiny(point, start, end) ==
    IF start = end THEN [exc |-> "", val |-> "float"]
    ELSE IF Divisor(start, end) = 0 THEN [exc |-> "ZeroDivisionError", val |-> ""]
    ELSE [exc |-> "", val |-> "float"]

\* Faulty variant: the scan stops one short, `range(1, len(coords) - 2)`, and
\* never looks at the last interior point.
RECURSIVE MaxScanSkipLast(_, _, _)
MaxScanSkipLast(coords, i, best) ==
    IF i > Len(coords) - 2 THEN best
    ELSE LET dist == point_line_distance(coords[i], coords[1], coords[Len(coords)])
         IN  IF DistGreater(dist, best.max_dist)
             THEN MaxScanSkipLast(coords, i + 1, [max_dist |-> dist, max_idx |-> i])
             ELSE MaxScanSkipLast(coords, i + 1, best)

\* The scan `for i in range(1, len(coords) - 1)` from index i on.  Indices are
\* 1-based: the interior points are 2..Len-1 and Python's initial max_idx = 0
\* is 1 here.  best is [max_dist, max_idx].
RECURSIVE MaxScan(_, _, _)
MaxScan(coords, i, best) ==
    IF i > Len(coords) - 1 THEN best
    ELSE LET dist == point_line_distance(coords[i], coords[1], coords[Len(coords)])
         IN  IF DistGreater(dist, best.max_dist)
             THEN MaxScan(coords, i + 1, [max_dist |-> dist, max_idx |-> i])
             ELSE MaxScan(coords, i + 1, best)

\* Faulty variant: left + right, the split point twice.
RecombineDuplicate(left, right) ==
    IF left.exc # "" THEN left
    ELSE IF right.exc # "" THEN right
    ELSE Return(left.val \o right.val)

\* left[:-1] + right, or the exception either call raised.
Recombine(left, right) ==
    IF left.exc # "" THEN left
    ELSE IF right.exc # "" THEN right
    ELSE Return(SubSeq(left.val, 1, Len(left.val) - 1) \o right.val)

\* douglas_peucker: the list it returns, or the exception.  With max_idx left at
\* its initial value (no interior point farther than 0) and max_dist > epsilon,
\* which a negative epsilon allows, the right-hand call gets coords[0:] again
\* and the recursion never ends: RecursionError.
RECURSIVE douglas_peucker(_, _)
\* Faulty variant: splits whatever max_dist is, without the threshold test.
SplitOrCollapseAlways(coords, eps, best) ==
    IF best.max_idx = 1 THEN Raise("RecursionError")
    ELSE Recombine(douglas_peucker(SubSeq(coords, 1, best.max_idx), eps),
                   douglas_peucker(SubSeq(coords, best.max_idx, Len(coords)), eps))

SplitOrCollapse(coords, eps, best) ==
    IF Exceeds(best.max_dist, eps)
    THEN IF best.max_idx = 1 THEN Raise("RecursionError")
         ELSE Recombine(douglas_peucker(SubSeq(coords, 1, best.max_idx), eps),
                        douglas_peucker(SubSeq(coords, best.max_idx, Len(coords)), eps))
    ELSE Return(<<coords[1], coords[Len(coords)]>>)

douglas_peucker(coords, eps) ==
    IF Len(coords) <= 2 THEN Return(coords)
    ELSE SplitOrCollapse(coords, eps,
                         MaxScan(coords, 2, [max_dist |-> Dist(0, 1), max_idx |-> 1]))

\* The positions (1-based, in coords) of the points douglas_peucker returns:
\* the same recursion, carrying indices instead of points.  The right-hand
\* call works on coords[max_idx:], so its positions are shifted by max_idx.
Shift(idx, by) == [k \in DOMAIN idx |-> idx[k] + by]
RecombineKept(left, right, by) == SubSeq(left, 1, Len(left) - 1) \o Shift(right, by)

RECURSIVE KeptIndices(_, _)
KeptSplitOrCollapse(coords, eps, best) ==
    IF Exceeds(best.max_dist, eps)
    THEN IF best.max_idx = 1 THEN <<>>
         ELSE RecombineKept(KeptIndices(SubSeq(coords, 1, best.max_idx), eps),
                            KeptIndices(SubSeq(coords, best.max_idx, Len(coords)), eps),
                            best.max_idx - 1)
    ELSE <<1, Len(coords)>>

KeptIndices(coords, eps) ==
    IF Len(coords) <= 2 THEN [k \in 1..Len(coords) |-> k]
    ELSE KeptSplitOrCollapse(coords, eps,
                             MaxScan(coords, 2, [max_dist |-> Dist(0, 1), max_idx |-> 1]))

\* round(c, precision): a coordinate is a number of grid steps, Quantum of them
\* to one unit of the last kept decimal digit; no coordinate lies halfway.
Quantum == 3
Round(c) == ((2 * c + Quantum) \div (2 * Quantum)) * Quantum
round_coords(coords) == [k \in DOMAIN coords |-> Round(coords[k])]

\* if simplified[0] != simplified[-1]: simplified.append(simplified[0])
CloseRing(simplified) ==
    IF simplified[1] # simplified[Len(simplified)]
    THEN Append(simplified, simplified[1]) ELSE simplified

\* Faulty variant: the ring the guard returns is rounded too.
GuardAndRoundAlways(after, simplified) ==
    IF Len(simplified) < 4
    THEN [exc |-> "", val |-> [k \in DOMAIN after |-> round_coords(after[k])], ring |-> after]
    ELSE [exc |-> "", val |-> [k \in DOMAIN simplified |-> round_coords(simplified[k])],
          ring |-> after]

\* The guard and the rounding; `after` is what the caller's list holds by then.
GuardAndRound(after, simplified) ==
    IF Len(simplified) < 4
    THEN [exc |-> "", val |-> after, ring |-> after]
    ELSE [exc |-> "", val |-> [k \in DOMAIN simplified |-> round_coords(simplified[k])],
          ring |-> after]

\* simplify_ring from the result dp of douglas_peucker on.  For a ring of at
\* most 2 points douglas_peucker returned the caller's list itself, so the
\* append of the closing point changes that list.
CloseGuardRound(r, dp) ==
    IF dp.exc # "" THEN [exc |-> dp.exc, val |-> <<>>, ring |-> r]
    ELSE IF Len(dp.val) = 0 THEN [exc |-> "IndexError", val |-> <<>>, ring |-> r]
    ELSE GuardAndRound(IF Len(r) <= 2 THEN CloseRing(dp.val) ELSE r, CloseRing(dp.val))

\* simplify_ring: what it returns or raises, and what the caller's list holds
\* afterwards.
simplify_ring(r, eps) == CloseGuardRound(r, douglas_peucker(r, eps))

\* The loops of simplify_geometry.  acc holds the list built so far (new) and
\* what the rings already handed to simplify_ring hold by now (after).
EmptyAcc == [new |-> <<>>, after |-> <<>>]

\* Faulty variant: only the exterior ring is simplified, the holes are copied.
RECURSIVE SimplifyRingsFirstOnly(_, _, _, _)
AppendRingFirstOnly(rings, eps, k, acc, out) ==
    IF out.exc # ""
    THEN [exc |-> out.exc, val |-> <<>>,
          after |-> Append(acc.after, out.ring) \o SubSeq(rings, k + 1, Len(rings))]
    ELSE SimplifyRingsFirstOnly(rings, eps, k + 1,
                                [new |-> Append(acc.new, out.val),
                                 after |-> Append(acc.after, out.ring)])

SimplifyRingsFirstOnly(rings, eps, k, acc) ==
    IF k > Len(rings) THEN [exc |-> "", val |-> acc.new, after |-> acc.after]
    ELSE AppendRingFirstOnly(rings, eps, k, acc,
                             IF k = 1 THEN simplify_ring(rings[k], eps)
                             ELSE [exc |-> "", val |-> rings[k], ring |-> rings[k]])

\* for ring in ...: new_coords.append(simplify_ring(ring, epsilon)), from the
\* k-th ring on; an exception of simplify_ring ends the loop.
RECURSIVE SimplifyRings(_, _, _, _)
AppendRing(rings, eps, k, acc, out) ==
    IF out.exc # ""
    THEN [exc |-> out.exc, val |-> <<>>,
          after |-> Append(acc.after, out.ring) \o SubSeq(rings, k + 1, Len(rings))]
    ELSE SimplifyRings(rings, eps, k + 1,
                       [new |-> Append(acc.new, out.val),
                        after |-> Append(acc.after, out.ring)])

SimplifyRings(rings, eps, k, acc) ==
    IF k > Len(rings) THEN [exc |-> "", val |-> acc.new, after |-> acc.after]
    ELSE AppendRing(rings, eps, k, acc, simplify_ring(rings[k], eps))

\* for polygon in geometry['coordinates']: ... new_polys.append(new_rings),
\* from the k-th polygon on.
RECURSIVE SimplifyPolygons(_, _, _, _)
AppendPolygon(polys, eps, k, acc, out) ==
    IF out.exc # ""
    THEN [exc |-> out.exc, val |-> <<>>,
          after |-> Append(acc.after, out.after) \o SubSeq(polys, k + 1, Len(polys))]
    ELSE SimplifyPolygons(polys, eps, k + 1,
                          [new |-> Append(acc.new, out.val),
                           after |-> Append(acc.after, out.after)])

SimplifyPolygons(polys, eps, k, acc) ==
    IF k > Len(polys) THEN [exc |-> "", val |-> acc.new, after |-> acc.after]
    ELSE AppendPolygon(polys, eps, k, acc, SimplifyRings(polys[k], eps, 1, EmptyAcc))

\* The new dict {'type': ..., 'coordinates': ...}, or the exception, and what
\* the caller's geometry holds afterwards.
NewGeometry(type, out) ==
    [exc |-> out.exc,
     val |-> IF out.exc = "" THEN [type |-> type, coordinates |-> out.val] ELSE <<>>,
     geometry |-> [type |-> type, coordinates |-> out.after]]

\* simplify_geometry: any other type is returned as it is.
simplify_geometry(g, eps) ==
    IF g.type = "Polygon"
    THEN NewGeometry("Polygon", SimplifyRings(g.coordinates, eps, 1, EmptyAcc))
    ELSE IF g.type = "MultiPolygon"
    THEN NewGeometry("MultiPolygon", SimplifyPolygons(g.coordinates, eps, 1, EmptyAcc))
    ELSE [exc |-> "", val |-> g, geometry |-> g]

(************************ the district lookup's inputs *********************)
\* The closed 5-point ring of the rectangle [x1,x2] x [y1,y2], from corner
\* `start` (0..3, counter-clockwise from the lower left) in direction dir
\* (1 counter-clockwise, 3 clockwise).
Rect(x1, y1, x2, y2, start, dir) ==
    LET corner == << <<x1, y1>>, <<x2, y1>>, <<x2, y2>>, <<x1, y2>> >>
    IN  [k \in 1..5 |-> corner[((start + (k - 1) * dir) % 4) + 1]]

Polygon(rings) == [type |-> "Polygon", coordinates |-> rings]
MultiPolygon(polys) == [type |-> "MultiPolygon", coordinates |-> polys]

\* Geometries of the district file: two overlapping squares, a MultiPolygon of
\* two disjoint squares, and a geometry of another type that simplify_geometry
\* passes through unchanged.
GeometryCatalogue ==
    << Polygon(<< Rect(0, 0, 4, 4, 0, 1) >>),
       Polygon(<< Rect(2, 2, 6, 6, 0, 3) >>),
       MultiPolygon(<< << Rect(0, 0, 2, 2, 0, 1) >>, << Rect(4, 0, 6, 2, 1, 1) >> >>),
       [type |-> "LineString", coordinates |-> Rect(0, 0, 8, 8, 0, 1)] >>

Lngs == {1, 3, 5, 7}
Lats == {1, 3}
Districts == {2, 5}   \* keys of COUNCILORS

Feature(district, g) == [properties |-> [district |-> district], geometry |-> g]

\* The files: up to MaxFeatures features, each a district and a geometry.
GeojsonFiles ==
    {[features |-> [k \in DOMAIN pick |->
                        Feature(pick[k][2], GeometryCatalogue[pick[k][1]])]] :
        pick \in SeqsOf((1..Len(GeometryCatalogue)) \X Districts, 0, MaxFeatures)}

Requests ==
    {[lat |-> la, lng |-> ln] : la \in Lats, ln \in Lngs}
        \cup [{"lat"} -> Lats] \cup [{"lng"} -> Lngs] \cup {<<>>}


(********************** the containment test's inputs **********************)
\* Exterior rings drawn freely: every sequence of up to MaxRing vertices, closed
\* or not, with repeated points, of any length from 0.
Vertices == {0, 2, 4} \X {0, 2}
FreeRings == SeqsOf(Vertices, 0, MaxRing)

\* Every rectangle with corners on the grid, from each corner, in each direction.
RectCorners == {0, 2, 4}
RectBoxes ==
    {b \in RectCorners \X RectCorners \X RectCorners \X RectCorners :
        b[1] < b[3] /\ b[2] < b[4]}
RectRings ==
    UNION {{Rect(b[1], b[2], b[3], b[4], start, dir) : start \in 0..3, dir \in {1, 3}} :
              b \in RectBoxes}

\* Further rings of a Polygon (holes), and the polygons of a MultiPolygon.
HoleRings == {Rect(1, 1, 3, 3, 0, 3), Rect(2, 0, 4, 2, 0, 1), <<>>}
OuterRings == {Rect(0, 0, 4, 4, 0, 1), Rect(0, 0, 2, 2, 2, 3), Rect(2, 2, 4, 4, 1, 1)}
PolygonCatalogue ==
    { << Rect(0, 0, 2, 2, 0, 1) >>,
      << Rect(2, 2, 4, 4, 0, 3) >>,
      << Rect(1, 1, 3, 3, 0, 1) >>,
      << Rect(0, 0, 4, 4, 0, 1), Rect(1, 1, 3, 3, 0, 3) >>,
      << <<>> >> }
Queries == -1..5


\* Two districts whose rectangles share one complete edge, side by side or one
\* above the other, in either order in the file, each ring from any corner in
\* either direction; queries on every grid point of 0..4 x 0..4.
BorderBoxes ==
    {p \in RectBoxes \X RectBoxes :
        \/ p[1][3] = p[2][1] /\ p[1][2] = p[2][2] /\ p[1][4] = p[2][4]
        \/ p[1][4] = p[2][2] /\ p[1][1] = p[2][1] /\ p[1][3] = p[2][3]}
RingsOf(b) == {Rect(b[1], b[2], b[3], b[4], start, dir) : start \in 0..3, dir \in {1, 3}}
TwoDistricts(r1, r2) ==
    [features |-> <<Feature(2, Polygon(<<r1>>)), Feature(5, Polygon(<<r2>>))>>]
BorderFiles ==
    UNION {{TwoDistricts(r1, r2) : r1 \in RingsOf(p[1]), r2 \in RingsOf(p[2])}
              \cup {TwoDistricts(r2, r1) : r1 \in RingsOf(p[1]), r2 \in RingsOf(p[2])} :
              p \in BorderBoxes}
BorderRequests == {[lat |-> la, lng |-> ln] : la \in 0..4, ln \in 0..4}

(************************** the simplifier's inputs ************************)
\* Rings of up to MaxLen points on a small grid, closed or not; tolerances
\* below, at and above the distances that occur, and a negative one.
Points == (0..2) \X (0..1)
Rings == SeqsOf(Points, 0, MaxLen)
Epsilons == {-1, 0, 1, 2, 3}
\* The tolerances the contract allows, for douglas_peucker on its own.
Tolerances == {0, 1, 2}

\* Rings whose coordinates are partly off the rounding grid: 0 and 3 are
\* multiples of Quantum and stay, 1 is rounded to 0.
OffGridPoints == {0, 1, 3} \X {0, 1, 3}
OffGridRings == SeqsOf(OffGridPoints, 0, MaxLen)
OffGridEpsilons == {0, 1}

\* Rings for simplify_geometry, on coordinates the rounding leaves alone: one
\* with a collinear vertex, a rectangle, an open ring of 2 points; and the
\* empty ring, on which simplify_ring raises.
CollinearRing == << <<0, 0>>, <<3, 0>>, <<6, 0>>, <<6, 3>>, <<0, 0>> >>
RectangleRing == << <<0, 0>>, <<6, 0>>, <<6, 3>>, <<0, 3>>, <<0, 0>> >>
RingCatalogue == {CollinearRing, RectangleRing, << <<0, 0>>, <<0, 3>> >>}
RingLists == SeqsOf({CollinearRing, RectangleRing}, 0, 1 + MaxHoles)
Polygons == {Polygon(rings) : rings \in SeqsOf(RingCatalogue \cup {<<>>}, 0, 1 + MaxHoles)}
MultiPolygons == {MultiPolygon(polys) : polys \in SeqsOf(RingLists, 0, MaxPolys)}
LineStrings == {[type |-> "LineString", coordinates |-> r] : r \in RingCatalogue}
GeometryEpsilons == {0, 2}

\* point_line_distance: a point and the two ends of a segment.
SegmentPoints == (0..3) \X (0..2)
\* Coordinates a few multiples of 2^-540 apart (about 1e-162).
TinyPoints == {0, 4, 8} \X {0, 4, 8}

(***************************** specifications ******************************)
IdleClassify == args = <<>> /\ geojson = [features |-> <<>>] /\ response = NoResponse
IdleGeometry ==
    x = 0 /\ y = 0 /\ geometry = Polygon(<<>>) /\ geometry0 = geometry /\ contained = Pending
IdleSimplify == ring = <<>> /\ ring0 = <<>> /\ epsilon = 0 /\ result = [exc |-> "pending", val |-> <<>>]

\* GET /api/detect-district
ApiDetectDistrict ==
    /\ response = NoResponse
    /\ response' = api_detect_district(args, geojson)
    /\ UNCHANGED <<args, geojson, x, y, geometry, geometry0, contained, ring, ring0, epsilon, result>>

InitClassify ==
    /\ args \in Requests
    /\ geojson \in GeojsonFiles
    /\ response = NoResponse
    /\ IdleGeometry
    /\ IdleSimplify

NextClassify == ApiDetectDistrict

SpecClassify == InitClassify /\ [][NextClassify]_vars

\* GET /api/detect-district on two districts with a common border.
InitBorder ==
    /\ args \in BorderRequests
    /\ geojson \in BorderFiles
    /\ response = NoResponse
    /\ IdleGeometry
    /\ IdleSimplify

SpecBorder == InitBorder /\ [][NextClassify]_vars

\* _point_in_geometry(x, y, geometry)
PointInGeometry ==
    /\ contained = Pending
    /\ contained' = _point_in_geometry(x, y, geometry)
    /\ UNCHANGED <<args, geojson, response, x, y, geometry, geometry0, ring, ring0, epsilon, result>>

\* Geometries in which every polygon has its exterior ring (of any shape).
InitGeometry ==
    /\ IdleClassify
    /\ IdleSimplify
    /\ contained = Pending
    /\ x \in Queries
    /\ \/ y \in -1..3 /\ geometry \in {Polygon(<<r>>) : r \in FreeRings}
       \/ y \in Queries /\ geometry \in {Polygon(<<r>>) : r \in RectRings}
       \/ y \in Queries /\ geometry \in {Polygon(<<r>> \o holes) :
                                           r \in OuterRings, holes \in SeqsOf(HoleRings, 1, 2)}
       \/ y \in Queries /\ geometry \in {MultiPolygon(polys) :
                                           polys \in SeqsOf(PolygonCatalogue, 0, MaxPolys)}
       \/ y \in Queries /\ geometry \in [type : {"LineString", "MultiPoint"},
                                         coordinates : OuterRings]
    /\ geometry0 = geometry

NextGeometry == PointInGeometry

SpecGeometry == InitGeometry /\ [][NextGeometry]_vars

\* The same, and the geometries whose ring list or polygon list is malformed.
MalformedPolygons == PolygonCatalogue \cup {<<>>, << <<>>, <<>> >>} \cup {<<r>> : r \in FreeRings}

InitMalformed ==
    /\ IdleClassify
    /\ IdleSimplify
    /\ contained = Pending
    /\ x \in Queries
    /\ y \in -1..3
    /\ \/ geometry \in {Polygon(rings) : rings \in MalformedPolygons}
       \/ geometry \in {MultiPolygon(polys) :
                           polys \in SeqsOf(PolygonCatalogue \cup {<<>>}, 0, MaxPolys)}
    /\ geometry0 = geometry

SpecMalformed == InitMalformed /\ [][NextGeometry]_vars

\* simplify_ring(ring, epsilon)
SimplifyRing ==
    /\ result.exc = "pending"
    /\ LET out == simplify_ring(ring, epsilon)
       IN  /\ result' = [exc |-> out.exc, val |-> out.val]
           /\ ring' = out.ring
    /\ UNCHANGED <<args, geojson, response, x, y, geometry, geometry0, contained, ring0, epsilon>>

InitSimplify ==
    /\ IdleClassify
    /\ IdleGeometry
    /\ ring \in Rings
    /\ ring0 = ring
    /\ epsilon \in Epsilons
    /\ result = [exc |-> "pending", val |-> <<>>]

NextSimplify == SimplifyRing

SpecSimplify == InitSimplify /\ [][NextSimplify]_vars

\* douglas_peucker(coords, epsilon) on its own; ring holds coords.
DouglasPeucker ==
    /\ result.exc = "pending"
    /\ result' = douglas_peucker(ring, epsilon)
    /\ UNCHANGED <<args, geojson, response, x, y, geometry, geometry0, contained, ring, ring0,
                   epsilon>>

InitDouglasPeucker ==
    /\ IdleClassify
    /\ IdleGeometry
    /\ ring \in Rings
    /\ ring0 = ring
    /\ epsilon \in Tolerances
    /\ result = [exc |-> "pending", val |-> <<>>]

NextDouglasPeucker == DouglasPeucker

SpecDouglasPeucker == InitDouglasPeucker /\ [][NextDouglasPeucker]_vars

\* simplify_geometry(geometry, epsilon)
SimplifyGeometry ==
    /\ result.exc = "pending"
    /\ LET out == simplify_geometry(geometry, epsilon)
       IN  /\ result' = [exc |-> out.exc, val |-> out.val]
           /\ geometry' = out.geometry
    /\ UNCHANGED <<args, geojson, response, x, y, geometry0, contained, ring, ring0, epsilon>>

InitSimplifyGeometry ==
    /\ IdleClassify
    /\ x = 0 /\ y = 0 /\ contained = Pending
    /\ ring = <<>> /\ ring0 = <<>>
    /\ \/ geometry \in Polygons
       \/ geometry \in MultiPolygons
       \/ geometry \in LineStrings
    /\ geometry0 = geometry
    /\ epsilon \in GeometryEpsilons
    /\ result = [exc |-> "pending", val |-> <<>>]

NextSimplifyGeometry == SimplifyGeometry

SpecSimplifyGeometry == InitSimplifyGeometry /\ [][NextSimplifyGeometry]_vars

\* point_line_distance(point, start, end); ring holds the three arguments.
PointLineDistance ==
    /\ result.exc = "pending"
    /\ result' = [exc |-> "", val |-> point_line_distance(ring[1], ring[2], ring[3])]
    /\ UNCHANGED <<args, geojson, response, x, y, geometry, geometry0, contained, ring, ring0,
                   epsilon>>

InitPointLineDistance ==
    /\ IdleClassify
    /\ IdleGeometry
    /\ ring \in SegmentPoints \X SegmentPoints \X SegmentPoints
    /\ ring0 = ring
    /\ epsilon = 0
    /\ result = [exc |-> "pending", val |-> <<>>]

NextPointLineDistance == PointLineDistance

SpecPointLineDistance == InitPointLineDistance /\ [][NextPointLineDistance]_vars

\* point_line_distance(point, start, end) on coordinates that differ by next
\* to nothing; ring holds the three arguments.
PointLineDistanceTiny ==
    /\ result.exc = "pending"
    /\ result' = point_line_distance_tiny(ring[1], ring[2], ring[3])
    /\ UNCHANGED <<args, geojson, response, x, y, geometry, geometry0, contained, ring, ring0,
                   epsilon>>

InitTiny ==
    /\ IdleClassify
    /\ IdleGeometry
    /\ ring \in TinyPoints \X TinyPoints \X TinyPoints
    /\ ring0 = ring
    /\ epsilon = 0
    /\ result = [exc |-> "pending", val |-> ""]

NextTiny == PointLineDistanceTiny

SpecTiny == InitTiny /\ [][NextTiny]_vars

\* simplify_ring on rings that the rounding moves.
InitRounding ==
    /\ IdleClassify
    /\ IdleGeometry
    /\ ring \in OffGridRings
    /\ ring0 = ring
    /\ epsilon \in OffGridEpsilons
    /\ result = [exc |-> "pending", val |-> <<>>]

SpecRounding == InitRounding /\ [][NextSimplify]_vars

(********************** claims about the district lookup *******************)
Answered == response # NoResponse
HasPoint == "lat" \in DOMAIN args /\ "lng" \in DOMAIN args

\* The features whose geometry contains the requested point.
Hits ==
    {i \in 1..Len(geojson.features) :
        _point_in_geometry(args.lng, args.lat, geojson.features[i].geometry) = Return(TRUE)}
FirstHit == CHOOSE i \in Hits : \A k \in Hits : i <= k

\* The district file cut after its first n features.
FirstFeatures(n) == [features |-> SubSeq(geojson.features, 1, n)]

\* C1: first-match policy.  Whenever some feature's geometry contains the
\* requested point, the answer carries the district of the lowest-index such
\* feature, and it is the answer the file cut after that feature gets: no later
\* feature changes it.
C1_FirstMatch ==
    (Answered /\ HasPoint /\ Hits # {}) =>
        /\ response.status = 200
        /\ response.district = <<geojson.features[FirstHit].properties.district>>
        /\ response = api_detect_district(args, FirstFeatures(FirstHit))

\* C1 witness: two features with different districts contain the point and the
\* first one's district was answered.
C1_Witness ==
    /\ Answered /\ HasPoint
    /\ \E i, k \in Hits :
          /\ i < k
          /\ i = FirstHit
          /\ geojson.features[i].properties.district # geojson.features[k].properties.district
          /\ response.district = <<geojson.features[i].properties.district>>

\* C2: the answer is {'district': None}, with status 200 and no error, exactly
\* when no feature contains the point; an empty feature list always gets it.
C2_NoneIffNoHit ==
    (Answered /\ HasPoint) =>
        /\ (response = Json(200, <<>>, "", "")) <=> (Hits = {})
        /\ (Hits = {}) => (response.status = 200 /\ response.error = "")
        /\ (geojson.features = <<>>) => (response = Json(200, <<>>, "", ""))

\* C2 witness: a file of at least two features, none containing the point, was
\* answered with {'district': None}.
C2_Witness ==
    /\ Answered /\ HasPoint
    /\ Len(geojson.features) >= 2
    /\ Hits = {}
    /\ response = Json(200, <<>>, "", "")

IsKnownType(feature) == feature.geometry.type \in {"Polygon", "MultiPolygon"}

\* C7: a feature whose geometry type is neither Polygon nor MultiPolygon
\* contains no point and does not end the scan: the answer is the one the file
\* without those features gets, and it is no error.
C7_UnknownTypeSkipped ==
    (Answered /\ HasPoint) =>
        /\ \A i \in 1..Len(geojson.features) :
              ~IsKnownType(geojson.features[i]) => i \notin Hits
        /\ response = api_detect_district(args,
                          [features |-> SelectSeq(geojson.features, IsKnownType)])
        /\ response.status = 200

\* C7 witness: the first feature has another type, a later one contains the
\* point, and the later one's district was answered.
C7_Witness ==
    /\ Answered /\ HasPoint
    /\ Len(geojson.features) >= 2
    /\ ~IsKnownType(geojson.features[1])
    /\ Hits # {}
    /\ response.district = <<geojson.features[FirstHit].properties.district>>
    /\ geojson.features[1].properties.district # geojson.features[FirstHit].properties.district

(********************* claims about the containment test *******************)
Checked == contained # Pending
IsPolygon == geometry.type = "Polygon" /\ Len(geometry.coordinates) >= 1
Inside(r) == RayLoop(x, y, r, 1, Len(r), FALSE) = Return(TRUE)

\* C3: a Polygon's containment depends on its first ring only.  Whatever
\* further rings the Polygon has, the answer is the ray-casting answer of
\* coordinates[0], the one the Polygon of that ring alone gets; a point inside
\* a hole ring is still contained.
C3_FirstRingOnly ==
    (Checked /\ IsPolygon) =>
        /\ contained = RayLoop(x, y, geometry.coordinates[1], 1,
                               Len(geometry.coordinates[1]), FALSE)
        /\ contained = _point_in_polygon(x, y, <<geometry.coordinates[1]>>)

\* C3 witness: the point lies inside the exterior ring and inside a hole ring,
\* and was answered as contained.
C3_Witness ==
    /\ Checked /\ IsPolygon
    /\ Len(geometry.coordinates) >= 2
    /\ Inside(geometry.coordinates[1])
    /\ Inside(geometry.coordinates[2])
    /\ contained = Return(TRUE)

\* C4: a MultiPolygon contains the point if and only if _point_in_polygon
\* returns true for at least one of its polygons; with no polygons it contains
\* no point.
C4_MultiPolygonAny ==
    (Checked /\ geometry.type = "MultiPolygon") =>
        /\ contained = Return(\E k \in 1..Len(geometry.coordinates) :
                                  _point_in_polygon(x, y, geometry.coordinates[k]) = Return(TRUE))
        /\ (geometry.coordinates = <<>>) => (contained = Return(FALSE))

\* C4 witness: of two polygons the first does not contain the point, the second
\* does, and the MultiPolygon was answered as containing it.
C4_Witness ==
    /\ Checked /\ geometry.type = "MultiPolygon"
    /\ Len(geometry.coordinates) = 2
    /\ _point_in_polygon(x, y, geometry.coordinates[1]) = Return(FALSE)
    /\ _point_in_polygon(x, y, geometry.coordinates[2]) = Return(TRUE)
    /\ contained = Return(TRUE)

\* An axis-aligned rectangle as a closed 5-point ring: four distinct corners of
\* its bounding box, consecutive ones sharing exactly one coordinate.
MinOf(S) == CHOOSE m \in S : \A n \in S : m <= n
MaxOf(S) == CHOOSE m \in S : \A n \in S : m >= n
XsOf(r) == {r[k][1] : k \in 1..Len(r)}
YsOf(r) == {r[k][2] : k \in 1..Len(r)}
IsRectangleRing(r) ==
    /\ Len(r) = 5
    /\ r[1] = r[5]
    /\ Cardinality({r[k] : k \in 1..4}) = 4
    /\ Cardinality(XsOf(r)) = 2
    /\ Cardinality(YsOf(r)) = 2
    /\ \A k \in 1..4 : (r[k][1] = r[k + 1][1]) # (r[k][2] = r[k + 1][2])

IsRectangle ==
    /\ geometry.type = "Polygon"
    /\ Len(geometry.coordinates) = 1
    /\ IsRectangleRing(geometry.coordinates[1])
StrictlyInside(r) ==
    /\ MinOf(XsOf(r)) < x /\ x < MaxOf(XsOf(r))
    /\ MinOf(YsOf(r)) < y /\ y < MaxOf(YsOf(r))
StrictlyOutside(r) ==
    \/ x < MinOf(XsOf(r)) \/ x > MaxOf(XsOf(r))
    \/ y < MinOf(YsOf(r)) \/ y > MaxOf(YsOf(r))

\* C5: for an axis-aligned rectangle given as a closed 5-point ring, from any
\* corner and in either direction, a point strictly inside is contained and a
\* point strictly outside is not.
C5_RectangleContainment ==
    (Checked /\ IsRectangle) =>
        /\ StrictlyInside(geometry.coordinates[1]) => (contained = Return(TRUE))
        /\ StrictlyOutside(geometry.coordinates[1]) => (contained = Return(FALSE))

\* C5 witness: a clockwise rectangle that does not start at its lower left
\* corner, a point strictly inside it, answered as contained.
C5_Witness ==
    /\ Checked /\ IsRectangle
    /\ LET r == geometry.coordinates[1]
       IN  /\ StrictlyInside(r)
           /\ r[1] # <<MinOf(XsOf(r)), MinOf(YsOf(r))>>
           /\ r[2][1] = r[1][1] /\ r[2][2] > r[1][2]
    /\ contained = Return(TRUE)

\* C5 second witness: a point strictly outside, level with the lower edge.
C5_WitnessOutside ==
    /\ Checked /\ IsRectangle
    /\ x < MinOf(XsOf(geometry.coordinates[1]))
    /\ y = MinOf(YsOf(geometry.coordinates[1]))
    /\ contained = Return(FALSE)

\* The crossing rule as the specification words it, for the edge (v[j], v[i])
\* with j the index before i, wrapping: exactly one endpoint has y strictly
\* greater than the point's, and x < x_j + (x_i - x_j) * (y - y_j) / (y_i - y_j).
PrevIndex(r, i) == IF i = 1 THEN Len(r) ELSE i - 1
ExactlyOneAbove(r, i) ==
    LET yi == r[i][2]
        yj == r[PrevIndex(r, i)][2]
    IN  (yi > y /\ ~(yj > y)) \/ (~(yi > y) /\ yj > y)
SpecLeftOfIntersection(r, i) ==
    LET xi == r[i][1]
        yi == r[i][2]
        xj == r[PrevIndex(r, i)][1]
        yj == r[PrevIndex(r, i)][2]
    IN  IF yi - yj > 0
        THEN (x - xj) * (yi - yj) < (xi - xj) * (y - yj)
        ELSE (x - xj) * (yi - yj) > (xi - xj) * (y - yj)
SpecCrossings(r) ==
    {i \in 1..Len(r) : ExactlyOneAbove(r, i) /\ SpecLeftOfIntersection(r, i)}

\* C6: the loop's answer is the parity of the number of edges the specified
\* rule counts as crossed, and on every edge with exactly one endpoint above
\* the point the code's quotient and the specified one decide alike.
C6_CrossingRule ==
    (Checked /\ IsPolygon) =>
        LET r == geometry.coordinates[1]
        IN  /\ contained = Return(Cardinality(SpecCrossings(r)) % 2 = 1)
            /\ \A i \in 1..Len(r) :
                  ExactlyOneAbove(r, i) =>
                      (XLeftOfIntersection(x, y, r[i][1], r[i][2],
                                           r[PrevIndex(r, i)][1], r[PrevIndex(r, i)][2])
                       <=> SpecLeftOfIntersection(r, i))

\* C6 witness: a slanted edge is crossed, an odd number of edges in all, and the
\* point was answered as contained.
C6_Witness ==
    /\ Checked /\ IsPolygon
    /\ LET r == geometry.coordinates[1]
       IN  /\ \E i \in SpecCrossings(r) : r[i][1] # r[PrevIndex(r, i)][1]
           /\ Cardinality(SpecCrossings(r)) % 2 = 1
    /\ contained = Return(TRUE)

\* C8: the containment test never raises for a malformed but well-typed
\* geometry (an empty ring list, an empty or short first ring, an open ring, a
\* MultiPolygon of such polygons): it returns a boolean.
C8_NeverRaises == Checked => contained.exc = ""

(************************ claims about simplify_ring ***********************)
Returned == result.exc = ""
IsClosed(r) == Len(r) >= 1 /\ r[1] = r[Len(r)]

\* C9: closure invariant.  For any input ring and any epsilon the ring
\* simplify_ring returns has its first point equal to its last, when the
\* simplified ring is accepted and when the degeneracy guard returns the
\* original.
C9_ClosureInvariant == Returned => IsClosed(result.val)

\* The closed, repaired simplification of the ring simplify_ring was called with.
Repaired ==
    LET dp == douglas_peucker(ring0, epsilon).val
    IN  IF dp[1] # dp[Len(dp)] THEN Append(dp, dp[1]) ELSE dp

\* C10: degeneracy guard.  Whenever the closed, repaired simplification has
\* fewer than 4 points, simplify_ring returns the original ring with exactly
\* its original points; so for a closed ring of at least 4 points the returned
\* ring has at least 4 points.  Stated for the tolerances the contract allows,
\* epsilon >= 0.
C10_DegeneracyGuard ==
    (Returned /\ epsilon >= 0) =>
        /\ (Len(Repaired) < 4) => (result.val = ring0)
        /\ (IsClosed(ring0) /\ Len(ring0) >= 4 /\ epsilon >= 0) => (Len(result.val) >= 4)

\* A second call on the ring the first call returned.
Again == simplify_ring(result.val, epsilon)

\* C11: simplification idempotence.  For any ring and any epsilon >= 0,
\* simplifying the returned ring again with the same epsilon returns that
\* same ring, coordinate rounding included.
C11_Idempotence ==
    (Returned /\ epsilon >= 0) => (Again.exc = "" /\ Again.val = result.val)

\* The simplification was accepted: the guard did not return the original.
Accepted == Returned /\ Len(Repaired) >= 4
\* The positions in the input ring of the points douglas_peucker kept.
Kept == KeptIndices(ring0, epsilon)
\* The input positions dropped between the k-th and the next kept position.
DroppedAfter(kept, k) == (kept[k] + 1)..(kept[k + 1] - 1)
\* The distance of the dropped vertex i to the segment between kept k and k+1.
Deviation(kept, i, k) == point_line_distance(ring0[i], ring0[kept[k]], ring0[kept[k + 1]])
\* p lies on the segment a-b.
OnSegment(p, a, b) ==
    LET cross == (p[1] - a[1]) * (b[2] - a[2]) - (p[2] - a[2]) * (b[1] - a[1])
        dot == (p[1] - a[1]) * (b[1] - a[1]) + (p[2] - a[2]) * (b[2] - a[2])
        len2 == (b[1] - a[1]) * (b[1] - a[1]) + (b[2] - a[2]) * (b[2] - a[2])
    IN  IF a = b THEN p = a ELSE cross = 0 /\ 0 <= dot /\ dot <= len2

\* kept are the positions of the points douglas_peucker returned, and every
\* position dropped between two of them is within epsilon of their segment.
WithinTolerance(kept) ==
    /\ [k \in DOMAIN kept |-> ring0[kept[k]]] = douglas_peucker(ring0, epsilon).val
    /\ \A k \in 1..(Len(kept) - 1) : \A i \in DroppedAfter(kept, k) :
          /\ ~Exceeds(Deviation(kept, i, k), epsilon)
          /\ (epsilon = 0) => OnSegment(ring0[i], ring0[kept[k]], ring0[kept[k + 1]])

\* C12: tolerance guarantee.  In an accepted result with epsilon >= 0, before
\* rounding, every dropped input vertex lies at distance <= epsilon from the
\* segment joining the nearest kept vertex before it and the nearest kept
\* vertex after it; at epsilon = 0 it lies exactly on that segment.
C12_ToleranceGuarantee ==
    (Accepted /\ epsilon >= 0) => WithinTolerance(KeptIndices(ring0, epsilon))

\* An accepted result for a closed ring that dropped a vertex lying off its
\* segment, within a positive tolerance.
C12_Witness ==
    /\ Accepted
    /\ IsClosed(ring0)
    /\ epsilon >= 1
    /\ \E k \in 1..(Len(Kept) - 1) : \E i \in DroppedAfter(Kept, k) :
          DistGreater(Deviation(Kept, i, k), Dist(0, 1))

\* An accepted result for a closed ring at epsilon 0 that dropped a vertex.
C12_WitnessZero ==
    /\ Accepted
    /\ IsClosed(ring0)
    /\ epsilon = 0
    /\ \E k \in 1..(Len(Kept) - 1) : DroppedAfter(Kept, k) # {}

\* Three different points on one line.
Collinear(a, b, c) ==
    /\ a # b /\ b # c /\ a # c
    /\ (b[1] - a[1]) * (c[2] - a[2]) - (b[2] - a[2]) * (c[1] - a[1]) = 0
\* The returned ring contains the input vertex at position i: an accepted
\* result holds the kept positions, a rejected one is the original ring.
InResult(i) == IF Accepted THEN \E k \in DOMAIN Kept : Kept[k] = i ELSE TRUE

\* C13: collinear removal at epsilon 0.  For any ring with three consecutive
\* (different) vertices exactly collinear, the middle one not being the ring's first or
\* last point, simplify_ring(ring, 0) returns a ring that does not contain
\* the middle vertex of that triple.
C13_CollinearRemoved ==
    (Returned /\ epsilon = 0) =>
        \A i \in 2..(Len(ring0) - 1) :
            Collinear(ring0[i - 1], ring0[i], ring0[i + 1]) => ~InResult(i)

\* simplify_ring has been called.
Called == result.exc # "pending"
\* The interior positions of a call's coords and their distance to its chord.
Interior(coords) == 2..(Len(coords) - 1)
ChordDist(coords, i) == point_line_distance(coords[i], coords[1], coords[Len(coords)])
\* No interior point is farther from the chord than the one at i.
AttainsMax(coords, i) ==
    \A j \in Interior(coords) :
        ChordDist(coords, j).num * ChordDist(coords, i).den
            <= ChordDist(coords, i).num * ChordDist(coords, j).den
\* The lowest position attaining the maximal distance.
LowestMax(coords) ==
    CHOOSE i \in Interior(coords) :
        AttainsMax(coords, i) /\ \A j \in Interior(coords) : j < i => ~AttainsMax(coords, j)
\* The call on coords splits: its maximal distance exceeds epsilon.
Splits(coords) ==
    Len(coords) >= 3 /\ Exceeds(ChordDist(coords, LowestMax(coords)), epsilon)
\* The scan's result for a call on coords.
Scanned(coords) == MaxScan(coords, 2, [max_dist |-> Dist(0, 1), max_idx |-> 1])

\* The positions in a sequence of positions.
Range(kept) == {kept[k] : k \in DOMAIN kept}
\* If the call on the whole ring splits, it splits at `lowest` and keeps it.
SplitsAtLowest(lowest) ==
    Exceeds(ChordDist(ring0, lowest), epsilon) =>
        /\ Scanned(ring0).max_idx = lowest
        /\ lowest \in Range(KeptIndices(ring0, epsilon))

\* C14: tie-break determinism.  In every douglas_peucker call that splits
\* (epsilon >= 0), the split point is the lowest-index interior point among
\* those attaining the maximal distance to the chord, and it is kept in the
\* result.  The calls are those on every sequence of up to MaxLen points, which
\* include every sequence a call recurses on.
C14_TieBreak ==
    (Returned /\ Len(ring0) >= 3) => SplitsAtLowest(LowestMax(ring0))

\* Two interior points of the ring tie at the maximal distance, the call
\* splits, and only the lower-index one is kept.
C14_Witness ==
    /\ Returned
    /\ epsilon >= 0
    /\ Splits(ring0)
    /\ \E j \in Interior(ring0) :
          /\ j > LowestMax(ring0)
          /\ AttainsMax(ring0, j)
          /\ ring0[j] # ring0[LowestMax(ring0)]
          /\ \A k \in DOMAIN Kept : Kept[k] # j
    /\ \E k \in DOMAIN Kept : Kept[k] = LowestMax(ring0)

\* C15: simplify_ring has no side effects on its argument.  For every input
\* ring and every epsilon the caller's ring holds the same points after the
\* call as before it.
C15_NoSideEffects == Called => ring = ring0

\* C16: simplify_ring is total.  For every input ring, the empty ring and
\* open rings included, and every epsilon >= 0, it raises no error and returns
\* a ring.
C16_Total ==
    (Called /\ epsilon >= 0) =>
        (result.exc = "" /\ \A k \in DOMAIN result.val : Len(result.val[k]) = 2)

\* C18: rings with fewer than 4 points are never simplified.  For any input
\* ring of length 0..3 and any epsilon >= 0, simplify_ring returns the ring with
\* the identical point sequence, and douglas_peucker returns a sequence of at
\* most 2 points unchanged.
C18_ShortRingUnchanged ==
    (Called /\ epsilon >= 0 /\ Len(ring0) < 4) =>
        /\ result = Return(ring0)
        /\ (Len(ring0) <= 2) => douglas_peucker(ring0, epsilon) = Return(ring0)

\* The different points of a ring.
VerticesOf(r) == {r[k] : k \in DOMAIN r}

\* C19: an accepted simplified ring is a valid polygon.  Whenever simplify_ring
\* returns a simplified ring for a closed input and epsilon >= 0, that ring has
\* at least 3 pairwise distinct vertices plus the closing point, and no two
\* consecutive points of it are equal.
C19_ValidPolygon ==
    (Accepted /\ IsClosed(ring0) /\ epsilon >= 0) =>
        /\ Cardinality(VerticesOf(result.val)) >= 3
        /\ IsClosed(result.val)
        /\ \A k \in 1..(Len(result.val) - 1) : result.val[k] # result.val[k + 1]

(********************** claims about simplify_geometry *********************)
\* What simplify_ring returns for one ring alone.
Alone(r) == simplify_ring(r, epsilon).val
\* A list of rings is the list of the input rings, each simplified alone.
RingWise(new, old) ==
    /\ Len(new) = Len(old)
    /\ \A k \in DOMAIN old : new[k] = Alone(old[k])

\* C17: composition over geometries.  simplify_geometry on a Polygon or
\* MultiPolygon returns a geometry of the same type, with as many polygons and
\* as many rings per polygon in the same order, each output ring being
\* simplify_ring of the corresponding input ring alone with the shared
\* epsilon, whatever the other rings are.
C17_Composition ==
    Returned =>
        /\ result.val.type = geometry0.type
        /\ (geometry0.type = "Polygon") =>
               RingWise(result.val.coordinates, geometry0.coordinates)
        /\ (geometry0.type = "MultiPolygon") =>
               /\ Len(result.val.coordinates) = Len(geometry0.coordinates)
               /\ \A p \in DOMAIN geometry0.coordinates :
                      RingWise(result.val.coordinates[p], geometry0.coordinates[p])

\* A MultiPolygon of two polygons was returned, one of them with a hole, and
\* simplification changed a hole and left another ring as it was.
C17_Witness ==
    /\ Returned
    /\ geometry0.type = "MultiPolygon"
    /\ Len(geometry0.coordinates) = 2
    /\ \E p \in DOMAIN geometry0.coordinates :
          /\ Len(geometry0.coordinates[p]) = 2
          /\ result.val.coordinates[p][2] # geometry0.coordinates[p][2]
    /\ \E p \in DOMAIN geometry0.coordinates : \E k \in DOMAIN geometry0.coordinates[p] :
          result.val.coordinates[p][k] = geometry0.coordinates[p][k]

(*********************** claims about douglas_peucker **********************)
\* The specified recombination: the left result followed by the right result
\* minus its first point.
LeftThenRightTail(left, right) == left \o Tail(right)
\* The results of the two recursive calls of a call on coords split at idx.
LeftResult(coords, idx) == douglas_peucker(SubSeq(coords, 1, idx), epsilon).val
RightResult(coords, idx) == douglas_peucker(SubSeq(coords, idx, Len(coords)), epsilon).val
\* kept is an increasing sequence of positions from the first to the last, and
\* the returned points are the input's points at those positions.
IsSubsequence(kept) ==
    /\ kept[1] = 1
    /\ kept[Len(kept)] = Len(ring0)
    /\ \A k \in 1..(Len(kept) - 1) : kept[k] < kept[k + 1]
    /\ result.val = [k \in DOMAIN kept |-> ring0[kept[k]]]
\* The call on the whole ring split at idx: the result is the specified
\* recombination, with the split point once, where the two results meet.
JoinedAt(idx, left, right) ==
    /\ result.val = LeftThenRightTail(left, right)
    /\ left[Len(left)] = ring0[idx]
    /\ right[1] = ring0[idx]
    /\ result.val[Len(left)] = ring0[idx]
    /\ Len(result.val) = Len(left) + Len(right) - 1

\* C20: recombination.  For any sequence of >= 2 points and epsilon >= 0,
\* douglas_peucker returns an order-preserving subsequence of its input from
\* the first point to the last; when the call splits, the split point appears
\* once, at the junction of the left and right results, and left[:-1] + right
\* is the left result followed by the right result minus its first point.
C20_Recombination ==
    (Returned /\ Len(ring0) >= 2) =>
        /\ IsSubsequence(KeptIndices(ring0, epsilon))
        /\ (Len(ring0) >= 3 /\ Exceeds(Scanned(ring0).max_dist, epsilon)) =>
               JoinedAt(Scanned(ring0).max_idx,
                        LeftResult(ring0, Scanned(ring0).max_idx),
                        RightResult(ring0, Scanned(ring0).max_idx))

\* A call that split, whose left call split again and whose right call
\* dropped a point.
C20_Witness ==
    /\ Returned
    /\ Exceeds(Scanned(ring0).max_dist, epsilon)
    /\ Len(LeftResult(ring0, Scanned(ring0).max_idx)) >= 3
    /\ Len(RightResult(ring0, Scanned(ring0).max_idx)) = 2
    /\ Len(result.val) < Len(ring0)

\* dist > eps and dist = eps, for a squared exact distance and a tolerance >= 0.
Beyond(dist, eps) == dist.num > eps * eps * dist.den
AtTolerance(dist, eps) == dist.num = eps * eps * dist.den
\* Some interior point of coords is farther than epsilon from the chord.
SomeBeyond(coords) ==
    \E j \in Interior(coords) : Beyond(ChordDist(coords, j), epsilon)

\* C21: threshold strictness.  A span of more than 2 points is split if and
\* only if its maximal interior distance is strictly greater than epsilon;
\* when it is less than or equal to epsilon, exactly equal included, the span
\* collapses to exactly [start, end].
C21_ThresholdStrict ==
    (Returned /\ Len(ring0) >= 3) =>
        IF SomeBeyond(ring0)
        THEN Len(result.val) >= 3
        ELSE result.val = <<ring0[1], ring0[Len(ring0)]>>

\* A span whose maximal interior distance equals a positive epsilon exactly,
\* and which collapsed.
C21_Witness ==
    /\ Returned
    /\ Len(ring0) >= 3
    /\ epsilon >= 1
    /\ ~SomeBeyond(ring0)
    /\ \E j \in Interior(ring0) : AtTolerance(ChordDist(ring0, j), epsilon)
    /\ result.val = <<ring0[1], ring0[Len(ring0)]>>

\* A span with an interior point just beyond a positive epsilon, which split.
C21_WitnessSplit ==
    /\ Returned
    /\ Len(ring0) >= 3
    /\ epsilon >= 1
    /\ SomeBeyond(ring0)
    /\ Len(result.val) >= 3

(************************* claims about the rounding ***********************)
\* r is c rounded to the precision: on the rounding grid, nearest to c.
IsRoundingOf(r, c) ==
    /\ r % Quantum = 0
    /\ 2 * (r - c) <= Quantum
    /\ 2 * (c - r) <= Quantum
\* Every coordinate of every point of new is the rounding of that of old.
RoundedFrom(new, old) ==
    /\ Len(new) = Len(old)
    /\ \A k \in DOMAIN old : \A c \in 1..2 : IsRoundingOf(new[k][c], old[k][c])

\* C22: rounding applies only to accepted results.  When the simplified ring
\* is accepted every coordinate of every output point is rounded to the
\* precision; when the degeneracy guard rejects it the caller's ring is
\* returned, its coordinates not rounded.
C22_RoundingOnlyAccepted ==
    Returned =>
        IF Accepted
        THEN RoundedFrom(result.val, Repaired)
        ELSE /\ result.val = ring
             /\ \A k \in DOMAIN result.val : result.val[k] \in VerticesOf(ring0)

\* An accepted ring in which rounding moved a coordinate.
C22_Witness ==
    /\ Accepted
    /\ epsilon >= 0
    /\ IsClosed(ring0)
    /\ result.val # Repaired

\* A rejected closed ring returned with a coordinate off the rounding grid.
C22_WitnessRejected ==
    /\ Returned
    /\ ~Accepted
    /\ IsClosed(ring0)
    /\ Len(ring0) >= 4
    /\ \E k \in DOMAIN result.val : result.val[k][1] % Quantum # 0

(********************* claims about point_line_distance ********************)
\* The squared distance between two points, and equality of two distances.
Between(p, q) == Dist((p[1] - q[1]) * (p[1] - q[1]) + (p[2] - q[2]) * (p[2] - q[2]), 1)
SameDist(a, b) == a.num * b.den = b.num * a.den
\* (p - a) . (b - a), and |b - a|^2.
Along(p, a, b) == (p[1] - a[1]) * (b[1] - a[1]) + (p[2] - a[2]) * (b[2] - a[2])
\* The squared perpendicular distance of p to the line through a and b.
Perpendicular(p, a, b) ==
    LET cross == (p[1] - a[1]) * (b[2] - a[2]) - (p[2] - a[2]) * (b[1] - a[1])
    IN  Dist(cross * cross, Along(b, a, b))
\* The distance of p to the closed segment a-b, case by case.
ToSegment(p, a, b) ==
    IF a = b THEN Between(p, a)
    ELSE IF Along(p, a, b) <= 0 THEN Between(p, a)
    ELSE IF Along(p, a, b) >= Along(b, a, b) THEN Between(p, b)
    ELSE Perpendicular(p, a, b)

\* C23: point_line_distance(P, A, B) is the distance from P to the nearest
\* point of the closed segment A-B: the distance P-A when A = B, the distance
\* to A when P projects before A, to B when P projects beyond B, the
\* perpendicular distance otherwise; no point of the segment is nearer, and it
\* is 0 exactly when P lies on the segment.
C23_SegmentDistance ==
    Returned =>
        /\ SameDist(result.val, ToSegment(ring0[1], ring0[2], ring0[3]))
        /\ \A q \in SegmentPoints :
               OnSegment(q, ring0[2], ring0[3]) =>
                   ~DistGreater(result.val, Between(ring0[1], q))
        /\ result.val.num = 0 <=> OnSegment(ring0[1], ring0[2], ring0[3])

\* A point that projects beyond the end of a proper segment, off its line.
C23_Witness ==
    /\ Returned
    /\ ring0[2] # ring0[3]
    /\ Along(ring0[1], ring0[2], ring0[3]) > Along(ring0[3], ring0[2], ring0[3])
    /\ Perpendicular(ring0[1], ring0[2], ring0[3]).num > 0
    /\ SameDist(result.val, Between(ring0[1], ring0[3]))

\* A point on the line of the segment but not on the segment: distance not 0.
C23_WitnessOnLine ==
    /\ Returned
    /\ ring0[2] # ring0[3]
    /\ Perpendicular(ring0[1], ring0[2], ring0[3]).num = 0
    /\ ~OnSegment(ring0[1], ring0[2], ring0[3])
    /\ result.val.num > 0

(************************* claims about termination ************************)
\* The call on coords recurses: some interior point is farther than epsilon.
Recurses(coords) == Len(coords) >= 3 /\ SomeBeyond(coords)
\* The two slices of a call on coords split at idx: coords[:idx+1], coords[idx:].
LeftSlice(coords, idx) == SubSeq(coords, 1, idx)
RightSlice(coords, idx) == SubSeq(coords, idx, Len(coords))
\* A slice of coords has at least 2 points and fewer than coords.
ProperSlice(slice, coords) == Len(slice) >= 2 /\ Len(slice) < Len(coords)
\* Split at idx, both recursive calls get a proper slice.
SplitsProperly(coords, idx) ==
    /\ idx \in Interior(coords)
    /\ ProperSlice(LeftSlice(coords, idx), coords)
    /\ ProperSlice(RightSlice(coords, idx), coords)

\* C24: douglas_peucker terminates for every finite point sequence and every
\* epsilon >= 0 (the recursion never runs away), and whenever it recurses the
\* split index lies strictly between the first and the last index, so both
\* recursive calls get at least 2 points and fewer than the current call.
C24_Terminates ==
    (Called /\ epsilon >= 0) =>
        /\ result.exc = ""
        /\ Recurses(ring0) => SplitsProperly(ring0, Scanned(ring0).max_idx)

\* A call that recursed, and one of whose recursive calls recursed again.
C24_Witness ==
    /\ Returned
    /\ epsilon >= 0
    /\ Recurses(ring0)
    /\ \/ Recurses(LeftSlice(ring0, Scanned(ring0).max_idx))
       \/ Recurses(RightSlice(ring0, Scanned(ring0).max_idx))

(********************** claims about division by zero **********************)
\* C25: no division by zero is reachable in the geometry core: in
\* _point_in_polygon the quotient by (yj - yi) is evaluated only for edges
\* whose ends differ in y, and in point_line_distance the divisor
\* dx*dx + dy*dy is not zero whenever the start == end branch is not taken.
C25_NoDivisionByZero ==
    /\ contained.exc # "ZeroDivisionError"
    /\ result.exc # "ZeroDivisionError"

(*********************** claims about common borders ***********************)
\* The exterior rings of the two districts of the file, and the point asked for.
RingOf(k) == geojson.features[k].geometry.coordinates[1]
Asked == <<args.lng, args.lat>>
\* The ends of the edge the two rectangles share.
SharedCorners == VerticesOf(RingOf(1)) \cap VerticesOf(RingOf(2))
\* The point asked for is on the shared edge and is not one of its ends.
OnSharedEdge ==
    /\ Asked \notin SharedCorners
    /\ \E a \in SharedCorners : \E b \in SharedCorners : a # b /\ OnSegment(Asked, a, b)
\* The k-th district's rectangle contains the point asked for.
Contains(k) == _point_in_polygon(args.lng, args.lat, <<RingOf(k)>>).val
\* The file with its two districts in the other order.
Swapped(file) == [features |-> <<file.features[2], file.features[1]>>]

\* C26: shared-boundary partition.  For two axis-aligned rectangles that share
\* one complete edge, every point on the shared edge other than its two ends is
\* contained in exactly one of the two rectangles, so the handler answers with
\* that district whichever of the two comes first in the file.
C26_SharedBoundary ==
    (response # NoResponse /\ OnSharedEdge) =>
        /\ Contains(1) # Contains(2)
        /\ response.district = <<IF Contains(1) THEN 2 ELSE 5>>
        /\ api_detect_district(args, Swapped(geojson)).district = response.district

\* A border point answered with the second district of the file.
C26_Witness ==
    /\ response # NoResponse
    /\ OnSharedEdge
    /\ response.district = <<5>>

(******************* claims about the tolerance's effect *******************)
\* The points of ring0 at the positions kept.
PointsAt(kept) == [k \in DOMAIN kept |-> ring0[kept[k]]]
\* kept1 are the positions of the points returned, kept2 those of the points
\* douglas_peucker returns for the tolerance e2, and kept1 has all of kept2.
KeepsAllOf(kept1, kept2, e2) ==
    /\ result.val = PointsAt(kept1)
    /\ douglas_peucker(ring0, e2) = Return(PointsAt(kept2))
    /\ Range(kept2) \subseteq Range(kept1)

\* kept1, the positions kept by the call, has all those kept for any tolerance
\* from epsilon up.
KeepsAllOfLater(kept1) ==
    /\ result.val = PointsAt(kept1)
    /\ \A e2 \in Tolerances :
           e2 > epsilon => KeepsAllOf(kept1, KeptIndices(ring0, e2), e2)

\* C27: monotonicity in epsilon.  For any point sequence and any
\* 0 <= e1 <= e2, the points kept by douglas_peucker(coords, e2) form a
\* subsequence of the points kept by douglas_peucker(coords, e1): raising the
\* tolerance never keeps a vertex that a smaller tolerance dropped.  (Both
\* position lists are increasing, so a subsequence is a subset of positions.)
C27_Monotone ==
    (Returned /\ epsilon >= 0) => KeepsAllOfLater(KeptIndices(ring0, epsilon))

\* The call dropped a vertex, and a larger tolerance drops one more and still
\* keeps an interior vertex.
C27_Witness ==
    /\ Returned
    /\ epsilon >= 0
    /\ Len(result.val) < Len(ring0)
    /\ \E e2 \in Tolerances :
          /\ e2 > epsilon
          /\ Len(douglas_peucker(ring0, e2).val) >= 3
          /\ Len(douglas_peucker(ring0, e2).val) < Len(result.val)

====
